---- MODULE Spec2Model ----
(***************************************************************************)
(* Lova: strength fusion, id indexing, sparse-matrix assembly and the      *)
(* weight-tuning loop of ImplicitALSEvaluator, modelled from               *)
(* src/src/lova/{aggregators,preprocessors,recommenders,evaluators}.       *)
(*                                                                         *)
(* Floating-point values are exact rationals <<n, d>> with d > 0 in lowest *)
(* terms; <<0, 0>> is NaN.  A DataFrame is a sequence of rows (records) in *)
(* row order; a dict is a sequence of [key, value] records in insertion    *)
(* order; a numpy vector is a sequence.                                    *)
(***************************************************************************)
EXTENDS Integers, Sequences, FiniteSets, TLC

VARIABLES
    pc,      \* position of the running call (preprocess step / tuner phase)
    rec,     \* the ImplicitALSRecommender object
    ev,      \* the ImplicitALSEvaluator object (held-out dataset, index lists)
    study,   \* the optuna study held by the evaluator (trials, best trial)
    trial,   \* locals of the objective() call in progress
    tune,    \* the tune() call: its n_trials and the exception it propagated
    aux      \* second operand of the relational checks (see each Init)

vars == <<pc, rec, ev, study, trial, tune, aux>>

None == <<>>

Range(s) == {s[i] : i \in DOMAIN s}

\* statement sequencing: { e(x) : x \in {v} } evaluates v once and binds x to
\* its value; Only takes the one element of such a set
Only(S) == CHOOSE y \in S : TRUE

(***************************************************************************)
(* Exact arithmetic standing for float64.                                  *)
(***************************************************************************)
Abs(x) == IF x < 0 THEN -x ELSE x

RECURSIVE GCD(_, _)
GCD(a, b) == IF b = 0 THEN a ELSE GCD(b, a % b)

NaN == <<0, 0>>

IsNaN(r) == r[2] = 0

Number == Int \X Int

\* the arithmetic is written as functions of the operand values
RatOf[n \in Int, d \in Int] ==
    IF d = 0 THEN NaN
    ELSE LET g == GCD(Abs(n), Abs(d))
             s == IF d < 0 THEN -1 ELSE 1
         IN  <<(s * n) \div g, (s * d) \div g>>

Rat(n, d) == RatOf[n, d]

FromInt(i) == <<i, 1>>

Sum[a \in Number, b \in Number] ==
    IF IsNaN(a) \/ IsNaN(b) THEN NaN
    ELSE RatOf[a[1] * b[2] + b[1] * a[2], a[2] * b[2]]

Difference[a \in Number, b \in Number] ==
    IF IsNaN(a) \/ IsNaN(b) THEN NaN
    ELSE RatOf[a[1] * b[2] - b[1] * a[2], a[2] * b[2]]

Product[a \in Number, b \in Number] ==
    IF IsNaN(a) \/ IsNaN(b) THEN NaN
    ELSE RatOf[a[1] * b[1], a[2] * b[2]]

\* The only divisions by zero of the program are 0/0 (a zero range divides
\* x - min = 0; an empty mean divides an empty sum), which float64 makes NaN.
Quotient[a \in Number, b \in Number] ==
    IF IsNaN(a) \/ IsNaN(b) \/ b[1] = 0 THEN NaN
    ELSE RatOf[a[1] * b[2], a[2] * b[1]]

\* float comparison: false as soon as an operand is NaN
Less[a \in Number, b \in Number] ==
    ~IsNaN(a) /\ ~IsNaN(b) /\ a[1] * b[2] < b[1] * a[2]

LessEq[a \in Number, b \in Number] ==
    ~IsNaN(a) /\ ~IsNaN(b) /\ a[1] * b[2] <= b[1] * a[2]

RAdd(a, b) == Sum[a, b]

RSub(a, b) == Difference[a, b]

RMul(a, b) == Product[a, b]

RDiv(a, b) == Quotient[a, b]

RLess(a, b) == Less[a, b]

RLeq(a, b) == LessEq[a, b]

\* python min(x, q): q only when q < x
Smaller[x \in Number, q \in Number] == IF Less[q, x] THEN q ELSE x

RMin(x, q) == Smaller[x, q]

RFloor(r) == r[1] \div r[2]

RECURSIVE RSum(_)
RSum(s) == IF s = <<>> THEN FromInt(0) ELSE RAdd(s[1], RSum(Tail(s)))

RECURSIVE IntSum(_)
IntSum(s) == IF s = <<>> THEN 0 ELSE s[1] + IntSum(Tail(s))

RECURSIVE Pow2(_)
Pow2(i) == IF i = 0 THEN 1 ELSE 2 * Pow2(i - 1)

(***************************************************************************)
(* aggregators/convert_label_encoding_to_vector.py                         *)
(***************************************************************************)
\* a faulty variant: the first entry is not masked, it keeps the higher bits
label_to_vector_unmasked(label, field_num) ==
    [j \in 1..field_num |->
        IF j = 1 THEN label \div Pow2(field_num - 1)
        ELSE (label \div Pow2(field_num - j)) % 2]

\* a faulty variant: the window is one bit too high, range(field_num, 0, -1)
label_to_vector_shifted(label, field_num) ==
    [j \in 1..field_num |-> (label \div Pow2(field_num - j + 1)) % 2]

\* [(label >> i) & 1 for i in range(field_num - 1, -1, -1)]
label_to_vector(label, field_num) ==
    [j \in 1..field_num |-> (label \div Pow2(field_num - j)) % 2]

\* a faulty variant: the decoded vectors are combined by logical OR
label_list_to_vector_or(label_list, field_num) ==
    [j \in 1..field_num |->
        IF \E k \in DOMAIN label_list : (label_list[k] \div Pow2(field_num - j)) % 2 = 1
        THEN 1 ELSE 0]

\* vec = zeros(field_num); for label in label_list: vec += label_to_vector(..)
RECURSIVE label_list_to_vector(_, _)
label_list_to_vector(label_list, field_num) ==
    IF label_list = <<>> THEN [j \in 1..field_num |-> 0]
    ELSE LET n    == Len(label_list)
             head == label_list_to_vector(SubSeq(label_list, 1, n - 1), field_num)
             last == label_to_vector(label_list[n], field_num)
         IN  [j \in 1..field_num |-> head[j] + last[j]]

(***************************************************************************)
(* aggregators/generate_sequence_order.py, normalize_with_percentile.py,   *)
(* merge_with_strength.py.  A cell of a numeric column is                  *)
(* [kind |-> "list", v |-> <<ints>>] before the sequence merge and         *)
(* [kind |-> "num", v |-> rational] once it holds a number.                *)
(***************************************************************************)
NumCell(r) == [kind |-> "num", v |-> r]

ListCell(l) == [kind |-> "list", v |-> l]

ColValues(ds, col) == [i \in 1..Len(ds) |-> ds[i].num[col].v]

SetCol(ds, col, vals) ==
    [i \in 1..Len(ds) |-> [ds[i] EXCEPT !.num[col] = NumCell(vals[i])]]

\* interactions[col] = interactions[col].apply(sum), one column
SumColumn(ds, col) ==
    [i \in 1..Len(ds) |->
        [ds[i] EXCEPT !.num[col] = NumCell(FromInt(IntSum(ds[i].num[col].v)))]]

\* the DataFrame has the column (every row has the same columns)
HasColumn(interactions, col) == col \in DOMAIN interactions[1].num

\* interactions[col] raises KeyError for a name that is no column
KeyErrorRaised(interactions, selected_columns) ==
    \E k \in DOMAIN selected_columns : ~HasColumn(interactions, selected_columns[k])

\* sum(x) of a cell x that is a number and no list raises TypeError ('int'
\* object is not iterable): Series.apply(sum) calls sum on every cell
ScalarCellInColumn(interactions, col) ==
    \E i \in DOMAIN interactions : interactions[i].num[col].kind = "num"

\* the call raises TypeError at the first selected column that has a scalar
\* cell, when no column before it is missing
RECURSIVE SumTypeErrorRaised(_, _)
SumTypeErrorRaised(interactions, selected_columns) ==
    /\ selected_columns # <<>>
    /\ HasColumn(interactions, selected_columns[1])
    /\ \/ ScalarCellInColumn(interactions, selected_columns[1])
       \/ SumTypeErrorRaised(interactions, Tail(selected_columns))

\* for col in selected_columns: ...   The DataFrame is modified in place: when
\* interactions[col] or apply(sum) raises, the columns before col stay summed
\* and col keeps its cells (the assignment to interactions[col] never happens).
RECURSIVE sequence_with_equal_importance(_, _)
sequence_with_equal_importance(interactions, selected_columns) ==
    IF selected_columns = <<>> THEN interactions
    ELSE IF ~HasColumn(interactions, selected_columns[1]) THEN interactions
    ELSE IF ScalarCellInColumn(interactions, selected_columns[1]) THEN interactions
    ELSE sequence_with_equal_importance(
             SumColumn(interactions, selected_columns[1]), Tail(selected_columns))

\* k-th smallest (k from 0) of a non-empty sequence of numbers
KthSmallest(vals, k) ==
    CHOOSE x \in Range(vals) :
        /\ Cardinality({j \in DOMAIN vals : RLess(vals[j], x)}) <= k
        /\ k < Cardinality({j \in DOMAIN vals : RLeq(vals[j], x)})

SeqMin(vals) == KthSmallest(vals, 0)

SeqMax(vals) == KthSmallest(vals, Len(vals) - 1)

\* pandas Series.quantile(q), linear interpolation between the two order
\* statistics around position (n - 1) * q
Quantile(vals, q) ==
    LET n    == Len(vals)
        pos  == RMul(FromInt(n - 1), q)
        lo   == RFloor(pos)
        hi   == IF lo + 1 <= n - 1 THEN lo + 1 ELSE lo
        frac == RSub(pos, FromInt(lo))
        a    == KthSmallest(vals, lo)
        b    == KthSmallest(vals, hi)
    IN  RAdd(a, RMul(RSub(b, a), frac))

\* a faulty variant: the quantile is used as a floor, max(x, percentile_value)
CapColumnFloors(vals, percentile) ==
    LET percentile_value == Quantile(vals, percentile)
    IN  [i \in DOMAIN vals |->
            IF RLess(vals[i], percentile_value) THEN percentile_value ELSE vals[i]]

\* dataframe[col].apply(lambda x: min(x, percentile_value))
CapColumn(vals, percentile) ==
    LET percentile_value == Quantile(vals, percentile)
    IN  [i \in DOMAIN vals |-> RMin(vals[i], percentile_value)]

\* a faulty variant: the difference to the minimum is divided by the maximum
MinMaxColumnByMax(vals) ==
    LET lo == SeqMin(vals)
        hi == SeqMax(vals)
    IN  [i \in DOMAIN vals |-> RDiv(RSub(vals[i], lo), hi)]

\* (col - col.min()) / (col.max() - col.min())
MinMaxColumn(vals) ==
    LET lo == SeqMin(vals)
        hi == SeqMax(vals)
    IN  [i \in DOMAIN vals |-> RDiv(RSub(vals[i], lo), RSub(hi, lo))]

RECURSIVE normalize_with_percentile_cap(_, _, _)
normalize_with_percentile_cap(dataframe, selected_columns, percentile) ==
    IF selected_columns = <<>> THEN dataframe
    ELSE LET col == selected_columns[1]
             out == MinMaxColumn(CapColumn(ColValues(dataframe, col), percentile))
         IN  normalize_with_percentile_cap(
                 SetCol(dataframe, col, out), Tail(selected_columns), percentile)

Keys(dict) == [k \in DOMAIN dict |-> dict[k].key]

Values(dict) == [k \in DOMAIN dict |-> dict[k].value]

\* np.dot of a sequence of numbers with a sequence of weights
RECURSIVE Dot(_, _)
Dot(xs, ws) ==
    IF xs = <<>> THEN FromInt(0)
    ELSE RAdd(RMul(xs[1], ws[1]), Dot(Tail(xs), Tail(ws)))

\* interactions["numerical_strength"] = np.dot(interactions[selected_columns], strength_list)
merge_numerical_interactions_with_strength(interactions, strength_dict) ==
    LET selected_columns == Keys(strength_dict)
        strength_list    == Values(strength_dict)
    IN  [i \in 1..Len(interactions) |->
            [interactions[i] EXCEPT !.numerical_strength =
                Dot([k \in DOMAIN selected_columns |->
                        interactions[i].num[selected_columns[k]].v],
                    strength_list)]]

\* label_list_to_vector iterates over its argument ("for label in
\* label_list"): a label cell holding a bare integer raises TypeError
TypeErrorRaised(interactions) ==
    \E i \in 1..Len(interactions) : interactions[i].label_kind = "int"

\* interactions["bool_strength"] = np.dot(stack(label_list_to_vector(label, len(sv))), sv);
\* when the decoding raises, the DataFrame is left without the column
merge_bool_interactions_with_strength(interactions, strength_vector) ==
    IF TypeErrorRaised(interactions) THEN interactions
    ELSE
    [i \in 1..Len(interactions) |->
        [interactions[i] EXCEPT !.bool_strength =
            Dot([j \in DOMAIN strength_vector |->
                    FromInt(label_list_to_vector(interactions[i].label,
                                                 Len(strength_vector))[j])],
                strength_vector)]]

(***************************************************************************)
(* preprocessors/preprocess_interactions.py: InteractionPreprocessor       *)
(***************************************************************************)
\* self.dataset = normalize_with_percentile_cap(self.dataset, list(strength_dict.keys()), percentile)
NormalizeWithPercentileCap(r) ==
    [r EXCEPT !.dataset =
        normalize_with_percentile_cap(r.dataset, Keys(r.strength_dict), r.percentile)]

\* a faulty variant: the ratio scales the boolean side as well
BlendScalesBoth(numerical_strength, bool_strength, numerical_bool_ratio) ==
    RMul(RAdd(numerical_strength, bool_strength), numerical_bool_ratio)

\* strength = numerical_strength * numerical_bool_ratio + bool_strength
Blend(numerical_strength, bool_strength, numerical_bool_ratio) ==
    RAdd(RMul(numerical_strength, numerical_bool_ratio), bool_strength)

CalculateStrength(r) ==
    Only({ Only({ [r EXCEPT !.dataset =
                     [i \in 1..Len(d2) |->
                         [d2[i] EXCEPT !.strength =
                             Blend(d2[i].numerical_strength, d2[i].bool_strength,
                                   r.numerical_bool_ratio)]]]
                  : d2 \in {merge_bool_interactions_with_strength(d1, r.strength_vector)} })
           : d1 \in {merge_numerical_interactions_with_strength(r.dataset, r.strength_dict)} })

\* Series.unique(): the distinct values in order of first appearance
RECURSIVE Unique(_)
\* a faulty variant: the distinct values in increasing order, as numpy.unique
UniqueSorted(s) ==
    LET ids == Range(s)
    IN  [k \in 1..Cardinality(ids) |->
            CHOOSE id \in ids : Cardinality({ other \in ids : other < id }) = k - 1]

Unique(s) ==
    IF s = <<>> THEN <<>>
    ELSE LET n    == Len(s)
             head == Unique(SubSeq(s, 1, n - 1))
         IN  IF s[n] \in Range(head) THEN head ELSE Append(head, s[n])

\* {id: i for i, id in enumerate(ids)}
Enumerate(ids) == [k \in DOMAIN ids |-> [key |-> ids[k], value |-> k - 1]]

HasKey(dict, k) == \E e \in DOMAIN dict : dict[e].key = k

Get(dict, k) == dict[CHOOSE e \in DOMAIN dict : dict[e].key = k].value

\* a faulty variant: a key the dict lacks is filled with index 0
MapIdFillsZero(dict, k) == IF HasKey(dict, k) THEN FromInt(Get(dict, k)) ELSE FromInt(0)

\* a faulty variant: the indices count from 1
MapIdOneBased(dict, k) == IF HasKey(dict, k) THEN FromInt(Get(dict, k) + 1) ELSE NaN

\* Series.map(dict): the value of the key, NaN for a key the dict lacks
MapId(dict, k) == IF HasKey(dict, k) THEN FromInt(Get(dict, k)) ELSE NaN

GetIdIndexMapping(r) ==
    LET user_ids == Unique([i \in 1..Len(r.dataset) |-> r.dataset[i].user])
        item_ids == Unique([i \in 1..Len(r.dataset) |-> r.dataset[i].item])
        u2i      == Enumerate(user_ids)
        i2i      == Enumerate(item_ids)
    IN  [r EXCEPT !.user_id_to_index = u2i,
                  !.item_id_to_index = i2i,
                  !.rows = [i \in 1..Len(r.dataset) |-> Get(u2i, r.dataset[i].user)],
                  !.cols = [i \in 1..Len(r.dataset) |-> Get(i2i, r.dataset[i].item)]]

\* a faulty variant: a later triple of a pair replaces the entry
AccumulateOverwrites(old, value) == value

\* what csr_matrix does with one (value, (row, col)) triple: add it to the entry
Accumulate(old, value) == RAdd(old, value)

\* scipy csr_matrix((data, (rows, cols)), shape): the entries of the triples,
\* duplicates of a (row, col) pair accumulated, every other entry 0
CsrMatrix(data, rows, cols, shape) ==
    LET acc[t \in 0..Len(data)] ==
            IF t = 0
            THEN [u \in 0..(shape[1] - 1) |-> [i \in 0..(shape[2] - 1) |-> FromInt(0)]]
            ELSE [acc[t - 1] EXCEPT ![rows[t]][cols[t]] = Accumulate(@, data[t])]
    IN  [shape |-> shape, data |-> acc[Len(data)]]

GetSparseInteractionMatrix(r) ==
    [r EXCEPT !.sparse_interaction_matrix =
        CsrMatrix([i \in 1..Len(r.dataset) |-> r.dataset[i].strength],
                  r.rows, r.cols,
                  <<Len(r.user_id_to_index), Len(r.item_id_to_index)>>)]

\* a faulty variant: the rebuild re-derives the id index as well, from the
\* rows in the order of their new strengths' storage (last row first)
UpdateReindexing(r, numerical_strength_dict, bool_strength_vector, ratio) ==
    LET q == [r EXCEPT !.strength_dict = numerical_strength_dict,
                       !.strength_vector = bool_strength_vector,
                       !.numerical_bool_ratio = ratio,
                       !.dataset = [k \in 1..Len(@) |-> @[Len(@) + 1 - k]]]
    IN  GetSparseInteractionMatrix(GetIdIndexMapping(CalculateStrength(q)))

\* a faulty variant: the new strength is added to the strength the rows hold
UpdateAccumulating(r, numerical_strength_dict, bool_strength_vector, ratio) ==
    LET q == [r EXCEPT !.strength_dict = numerical_strength_dict,
                       !.strength_vector = bool_strength_vector,
                       !.numerical_bool_ratio = ratio]
        c == CalculateStrength(q)
    IN  GetSparseInteractionMatrix(
            [c EXCEPT !.dataset =
                [i \in 1..Len(@) |->
                    [@[i] EXCEPT !.strength = RAdd(@, r.dataset[i].strength)]]])

UpdateSparseInteractionMatrix(r, numerical_strength_dict, bool_strength_vector, ratio) ==
    Only({ Only({ GetSparseInteractionMatrix(q2) : q2 \in {CalculateStrength(q1)} })
           : q1 \in {[r EXCEPT !.strength_dict = numerical_strength_dict,
                              !.strength_vector = bool_strength_vector,
                              !.numerical_bool_ratio = ratio]} })

(***************************************************************************)
(* recommenders/ials.py: ImplicitALSRecommender                            *)
(***************************************************************************)
\* sequence_with_equal_importance(self.dataset, list(self.strength_dict.keys()))
MergeSequences(r) ==
    [r EXCEPT !.dataset = sequence_with_equal_importance(r.dataset, Keys(r.strength_dict))]

\* preprocess(), the five steps in the order of the code
Preprocess(r) ==
    GetSparseInteractionMatrix(GetIdIndexMapping(CalculateStrength(
        NormalizeWithPercentileCap(MergeSequences(r)))))

\* the object when __init__ enters preprocess(): columns and weights as given
NewRecommender(dataset, config) ==
    [dataset |-> dataset,
     percentile |-> config.percentile,
     strength_dict |-> config.numerical_strength_dict,
     strength_vector |-> config.bool_strength_vector,
     numerical_bool_ratio |-> config.numerical_bool_ratio,
     user_id_to_index |-> None, item_id_to_index |-> None,
     rows |-> None, cols |-> None,
     sparse_interaction_matrix |-> None,
     model_prepared |-> FALSE,
     model |-> None,
     user_factors |-> None, item_factors |-> None]

\* a raw interaction row, its label cell a list of integers: the strength
\* columns do not exist yet
RawRow(user, item, label, num) ==
    [user |-> user, item |-> item, label |-> label, label_kind |-> "list", num |-> num,
     numerical_strength |-> None, bool_strength |-> None, strength |-> None]

\* a raw row whose label cell is the bare integer label (kept in a tuple of
\* one element, label_kind telling it from the list [label])
RawRowIntLabel(user, item, label, num) ==
    [RawRow(user, item, <<label>>, num) EXCEPT !.label_kind = "int"]

(***************************************************************************)
(* implicit.als.AlternatingLeastSquares, the external factorization model  *)
(* behind ImplicitALSRecommender.fit.  Its arithmetic is not part of the   *)
(* repository; ALSSweep stands for it: a fixed deterministic function of   *)
(* the starting factors and the matrix, over the small value ring          *)
(* FactorValues.  What is kept of the library: fit() draws the starting    *)
(* factors from random_state (42) only when the model object has none yet, *)
(* updates the user factors from the item factors and then the item        *)
(* factors from the user factors, gives n_users x factors and              *)
(* n_items x factors matrices, and raises ModelFitError when the factors   *)
(* come out NaN.                                                           *)
(***************************************************************************)
MaxFactors == 2

FactorValues == 0..4

NaNEntry == 0 - 1

InRing(x) == x % Cardinality(FactorValues)

\* random_state.random((users, factors)), then ((items, factors)), seed 42
SeedUserFactors(users) ==
    [u \in 0..(users - 1) |-> [f \in 1..MaxFactors |-> InRing(u + f)]]

SeedItemFactors(items) ==
    [i \in 0..(items - 1) |-> [f \in 1..MaxFactors |-> InRing(2 * i + f + 1)]]

HasNaN(matrix) ==
    \E u \in DOMAIN matrix.data : \E i \in DOMAIN matrix.data[u] :
        IsNaN(matrix.data[u][i])

SumTo(n, term) ==
    LET s[k \in 0..n] == IF k = 0 THEN 0 ELSE s[k - 1] + term[k - 1]
    IN  s[n]

ALSSweep(X, Y, matrix) ==
    LET users == matrix.shape[1]
        items == matrix.shape[2]
        c(u, i) == RFloor(matrix.data[u][i])
        X1 == [u \in 0..(users - 1) |-> [f \in 1..MaxFactors |->
                  InRing(X[u][f] + SumTo(items, [i \in 0..(items - 1) |-> c(u, i) * Y[i][f]]))]]
        Y1 == [i \in 0..(items - 1) |-> [f \in 1..MaxFactors |->
                  InRing(Y[i][f] + SumTo(users, [u \in 0..(users - 1) |-> c(u, i) * X1[u][f]]))]]
    IN  [user_factors |-> X1, item_factors |-> Y1]

\* the factors fit() starts from: the model's own when it has some
StartUserFactors(model, users) ==
    IF model.user_factors = None THEN SeedUserFactors(users) ELSE model.user_factors

StartItemFactors(model, items) ==
    IF model.item_factors = None THEN SeedItemFactors(items) ELSE model.item_factors

AlternatingLeastSquaresFit(model, matrix) ==
    IF HasNaN(matrix)
    THEN [user_factors |-> [u \in 0..(matrix.shape[1] - 1) |-> [f \in 1..MaxFactors |-> NaNEntry]],
          item_factors |-> [i \in 0..(matrix.shape[2] - 1) |-> [f \in 1..MaxFactors |-> NaNEntry]]]
    ELSE ALSSweep(StartUserFactors(model, matrix.shape[1]),
                  StartItemFactors(model, matrix.shape[2]), matrix)

\* _check_fit_errors() at the end of the library's fit()
ModelFitError(model) ==
    \E u \in DOMAIN model.user_factors : \E f \in 1..MaxFactors :
        model.user_factors[u][f] = NaNEntry

\* self.model = AlternatingLeastSquares(...); self.model_prepared = True
InitModel(r) ==
    [r EXCEPT !.model = [user_factors |-> None, item_factors |-> None],
              !.model_prepared = TRUE]

\* fit(): the model object is created only while model_prepared is False
PrepareModel(r) == IF r.model_prepared = FALSE THEN InitModel(r) ELSE r

\* self.model.fit(user_items=self.sparse_interaction_matrix), up to the raise
FitModel(r) ==
    LET p == PrepareModel(r)
    IN  [p EXCEPT !.model = AlternatingLeastSquaresFit(p.model, p.sparse_interaction_matrix)]

\* fit() when the library returns: the factors are copied to the recommender
Fit(r) ==
    LET q == FitModel(r)
    IN  [q EXCEPT !.item_factors = q.model.item_factors,
                  !.user_factors = q.model.user_factors]

(***************************************************************************)
(* evaluators/ials_evaluator.py: ImplicitALSEvaluator                      *)
(***************************************************************************)
\* a held-out row: user id, item id and one more column of the DataFrame
HeldOutRow(user, item, extra) ==
    [user |-> user, item |-> item, extra |-> extra, user_map |-> None, item_map |-> None]

\* DataFrame.dropna(): a row stays when none of its cells is NaN
NoNaNCell(row) == ~IsNaN(row.user_map) /\ ~IsNaN(row.item_map) /\ ~IsNaN(row.extra)

MapIdToIndex(dataset, r) ==
    LET mapped == [k \in 1..Len(dataset) |->
                      [dataset[k] EXCEPT !.user_map = MapId(r.user_id_to_index, dataset[k].user),
                                         !.item_map = MapId(r.item_id_to_index, dataset[k].item)]]
        kept   == SelectSeq(mapped, NoNaNCell)
    IN  [dataset |-> kept,
         user_evaluate_indice |-> [k \in 1..Len(kept) |-> RFloor(kept[k].user_map)],
         item_evaluate_indice |-> [k \in 1..Len(kept) |-> RFloor(kept[k].item_map)]]

\* a faulty variant: the scores are summed and not divided by their number
MeanIsSum(scores) == FromInt(IntSum(scores))

\* ndarray.mean() of a vector of integers: sum / size, NaN for size 0
Mean(scores) == RDiv(FromInt(IntSum(scores)), FromInt(Len(scores)))

Evaluate(e, r) ==
    LET user_vectors == [k \in DOMAIN e.user_evaluate_indice |->
                            r.model.user_factors[e.user_evaluate_indice[k]]]
        item_vectors == [k \in DOMAIN e.item_evaluate_indice |->
                            r.model.item_factors[e.item_evaluate_indice[k]]]
        scores == [k \in DOMAIN user_vectors |->
                      IntSum([f \in 1..MaxFactors |-> user_vectors[k][f] * item_vectors[k][f]])]
    IN  Mean(scores)

(***************************************************************************)
(* The optuna study of the evaluator (create_study(direction="maximize"),  *)
(* study.optimize(objective, n_trials)): optuna is a library, modelled by  *)
(* what optimize does with the objective's return value.  study.trials     *)
(* holds the finished trials; a NaN value or an exception makes the trial  *)
(* FAIL with no value; an exception is re-raised out of optimize.          *)
(***************************************************************************)
NewStudy == [trials |-> <<>>, best_trial |-> None]

\* direction="maximize": the new value replaces the best one when greater
\* a faulty variant: the comparison of direction="minimize"
IsBetterMinimize(value, best_value) == RLess(value, best_value)

IsBetter(value, best_value) == RLess(best_value, value)

FrozenTrial(t, state, value) ==
    [number |-> t.number,
     params |-> [strength_dict |-> t.strength_dict,
                 strength_vector |-> t.strength_vector,
                 numerical_bool_ratio |-> t.numerical_bool_ratio],
     state |-> state, value |-> value]

\* the trial is stored with the value objective() returned
Tell(s, t) ==
    IF IsNaN(t.score)
    THEN [s EXCEPT !.trials = Append(@, FrozenTrial(t, "FAIL", None))]
    ELSE LET done == FrozenTrial(t, "COMPLETE", t.score)
         IN  [trials |-> Append(s.trials, done),
              best_trial |-> IF s.best_trial = None \/ IsBetter(t.score, s.best_trial.value)
                             THEN done ELSE s.best_trial]

\* the trial is stored as failed when objective() raised
TellFailed(s, t) == [s EXCEPT !.trials = Append(@, FrozenTrial(t, "FAIL", None))]

(***************************************************************************)
(* Inputs of the tuning runs.                                              *)
(***************************************************************************)
MaxTrials == 2

\* values trial.suggest_float(name, 1e-1, 1e3, log=True) may return
SuggestValues == {FromInt(1), FromInt(3)}

DefaultPercentile == <<999, 1000>>

Cells(a, b) == [A |-> ListCell(a), B |-> ListCell(b)]

\* a repeated (user, item) pair, ids not in increasing order
DatasetDup ==
    << RawRow(20, 8, <<1>>, Cells(<<1>>, <<0>>)),
       RawRow(10, 7, <<3, 1>>, Cells(<<1, 2>>, <<2>>)),
       RawRow(20, 8, <<2>>, Cells(<<4>>, <<1>>)) >>

DatasetPlain ==
    << RawRow(10, 7, <<2>>, Cells(<<0>>, <<1>>)),
       RawRow(20, 7, <<1, 1>>, Cells(<<2, 2>>, <<1, 1>>)),
       RawRow(20, 8, <<3>>, Cells(<<1>>, <<5>>)) >>

\* column A is constant
DatasetConstant ==
    << RawRow(10, 7, <<1>>, Cells(<<2>>, <<0>>)),
       RawRow(20, 8, <<2>>, Cells(<<1, 1>>, <<3>>)) >>

ConfigTwoKeys ==
    [percentile |-> DefaultPercentile,
     numerical_strength_dict |-> << [key |-> "A", value |-> FromInt(1)], [key |-> "B", value |-> FromInt(3)] >>,
     bool_strength_vector |-> << FromInt(1) >>,
     numerical_bool_ratio |-> FromInt(1)]

ConfigOneKey ==
    [percentile |-> DefaultPercentile,
     numerical_strength_dict |-> << [key |-> "B", value |-> FromInt(3)] >>,
     bool_strength_vector |-> << FromInt(1), FromInt(3) >>,
     numerical_bool_ratio |-> FromInt(3)]

HeldOutMixed ==
    << HeldOutRow(20, 8, FromInt(1)), HeldOutRow(30, 8, FromInt(1)),
       HeldOutRow(10, 7, FromInt(1)), HeldOutRow(10, 8, NaN), HeldOutRow(20, 7, FromInt(1)) >>

HeldOutUnseen == << HeldOutRow(30, 8, FromInt(1)), HeldOutRow(10, 9, FromInt(1)) >>

TuneSetups ==
    { [dataset |-> DatasetDup, config |-> ConfigTwoKeys, heldout |-> HeldOutMixed],
      [dataset |-> DatasetPlain, config |-> ConfigOneKey, heldout |-> HeldOutMixed],
      [dataset |-> DatasetConstant, config |-> ConfigTwoKeys, heldout |-> HeldOutMixed],
      [dataset |-> DatasetPlain, config |-> ConfigTwoKeys, heldout |-> HeldOutUnseen] }

(***************************************************************************)
(* The tuning run: ImplicitALSEvaluator.tune / objective /                 *)
(* _update_recommender, one action per phase.                              *)
(***************************************************************************)
Init ==
    \E setup \in TuneSetups :
        /\ rec = Preprocess(NewRecommender(setup.dataset, setup.config))
        /\ ev = MapIdToIndex(setup.heldout, rec)
        /\ study = NewStudy
        /\ pc = "Idle"
        /\ trial = None
        /\ tune = None
        /\ aux = None

\* recommender.fit() called by the script before the evaluator tunes
FitBeforeTune ==
    /\ pc = "Idle"
    /\ rec.model_prepared = FALSE
    /\ ~HasNaN(rec.sparse_interaction_matrix)
    /\ rec' = Fit(rec)
    /\ UNCHANGED <<pc, ev, study, trial, tune, aux>>

\* tune(n_trials): study.optimize(self.objective, n_trials=n_trials)
StartTune ==
    /\ pc = "Idle"
    /\ \E n \in 0..MaxTrials :
        /\ tune' = [n_trials |-> n, error |-> "none"]
        /\ pc' = IF n = 0 THEN "Done" ELSE "ProposeTrial"
    /\ UNCHANGED <<rec, ev, study, trial, aux>>

\* a faulty variant: the mapping is built with the keys in reverse order
ProposeTrialKeysReversed ==
    /\ pc = "ProposeTrial"
    /\ \E numerical_bool_ratio \in SuggestValues,
          numerical_weights \in [1..Len(rec.strength_dict) -> SuggestValues],
          bool_weights \in [1..Len(rec.strength_vector) -> SuggestValues] :
        trial' = [number |-> Len(study.trials),
                  strength_dict |->
                      [k \in 1..Len(rec.strength_dict) |->
                          [key |-> Keys(rec.strength_dict)[Len(rec.strength_dict) + 1 - k],
                           value |-> numerical_weights[k]]],
                  strength_vector |-> bool_weights,
                  numerical_bool_ratio |-> numerical_bool_ratio,
                  score |-> None]
    /\ pc' = "Rebuild"
    /\ UNCHANGED <<rec, ev, study, tune, aux>>

\* objective(), lines 121-135: the weights suggested for the schema the
\* recommender holds now
ProposeTrial ==
    /\ pc = "ProposeTrial"
    /\ \E numerical_bool_ratio \in SuggestValues,
          numerical_weights \in [1..Len(rec.strength_dict) -> SuggestValues],
          bool_weights \in [1..Len(rec.strength_vector) -> SuggestValues] :
        trial' = [number |-> Len(study.trials),
                  strength_dict |->
                      [k \in 1..Len(rec.strength_dict) |->
                          [key |-> Keys(rec.strength_dict)[k], value |-> numerical_weights[k]]],
                  strength_vector |-> bool_weights,
                  numerical_bool_ratio |-> numerical_bool_ratio,
                  score |-> None]
    /\ pc' = "Rebuild"
    /\ UNCHANGED <<rec, ev, study, tune, aux>>

\* a faulty variant: the matrix is rebuilt with the weights the recommender
\* already holds, not the trial's
RebuildStaleWeights ==
    /\ pc = "Rebuild"
    /\ rec' = UpdateSparseInteractionMatrix(rec, rec.strength_dict,
                                            rec.strength_vector, rec.numerical_bool_ratio)
    /\ pc' = "Refit"
    /\ UNCHANGED <<ev, study, trial, tune, aux>>

\* _update_recommender, line 83
Rebuild ==
    /\ pc = "Rebuild"
    /\ rec' = UpdateSparseInteractionMatrix(rec, trial.strength_dict,
                                            trial.strength_vector, trial.numerical_bool_ratio)
    /\ pc' = "Refit"
    /\ UNCHANGED <<ev, study, trial, tune, aux>>

\* _update_recommender, line 88, fit() returning
Refit ==
    /\ pc = "Refit"
    /\ ~ModelFitError(FitModel(rec).model)
    /\ rec' = Fit(rec)
    /\ pc' = "Evaluate"
    /\ UNCHANGED <<ev, study, trial, tune, aux>>

\* a faulty variant: the exception is caught, the trial stored as failed and
\* the next trial started
RefitRaisesCaught ==
    /\ pc = "Refit"
    /\ ModelFitError(FitModel(rec).model)
    /\ rec' = FitModel(rec)
    /\ study' = TellFailed(study, trial)
    /\ pc' = IF Len(study'.trials) < tune.n_trials THEN "ProposeTrial" ELSE "Done"
    /\ UNCHANGED <<ev, trial, tune, aux>>

\* line 88, fit() raising: the exception leaves objective() and optimize()
RefitRaises ==
    /\ pc = "Refit"
    /\ ModelFitError(FitModel(rec).model)
    /\ rec' = FitModel(rec)
    /\ study' = TellFailed(study, trial)
    /\ tune' = [tune EXCEPT !.error = "ModelFitError"]
    /\ pc' = "Done"
    /\ UNCHANGED <<ev, trial, aux>>

\* _update_recommender, line 89
EvaluateTrial ==
    /\ pc = "Evaluate"
    /\ trial' = [trial EXCEPT !.score = Evaluate(ev, rec)]
    /\ pc' = "Record"
    /\ UNCHANGED <<rec, ev, study, tune, aux>>

\* a faulty variant: one trial more than the budget
BudgetLeftOffByOne(s, n_trials) == Len(s.trials) <= n_trials

\* optimize(n_trials): another trial is run while fewer than n_trials are finished
BudgetLeft(s, n_trials) == Len(s.trials) < n_trials

\* a faulty variant: when the budget is used up the best trial's weights are
\* put back into the recommender, which is rebuilt and refitted with them
RecordRestoresBest ==
    /\ pc = "Record"
    /\ study' = Tell(study, trial)
    /\ pc' = IF BudgetLeft(study', tune.n_trials) THEN "ProposeTrial" ELSE "Done"
    /\ rec' = IF pc' = "Done" /\ study'.best_trial # None
              THEN Fit(UpdateSparseInteractionMatrix(
                           rec, study'.best_trial.params.strength_dict,
                           study'.best_trial.params.strength_vector,
                           study'.best_trial.params.numerical_bool_ratio))
              ELSE rec
    /\ UNCHANGED <<ev, trial, tune, aux>>

\* optimize() stores the returned score and goes on while trials remain
Record ==
    /\ pc = "Record"
    /\ study' = Tell(study, trial)
    /\ pc' = IF BudgetLeft(study', tune.n_trials) THEN "ProposeTrial" ELSE "Done"
    /\ UNCHANGED <<rec, ev, trial, tune, aux>>

Next ==
    \/ FitBeforeTune
    \/ StartTune
    \/ ProposeTrial
    \/ Rebuild
    \/ Refit
    \/ RefitRaises
    \/ EvaluateTrial
    \/ Record

Spec == Init /\ [][Next]_vars

\* every phase is a step of one synchronous call: the run keeps going
FairSpec == Spec /\ WF_vars(Next)

(***************************************************************************)
(* Properties of the tuning run.                                           *)
(***************************************************************************)
Completed == {k \in DOMAIN study.trials : study.trials[k].state = "COMPLETE"}

\* C1: once at least one trial is completed, the best trial of the study is one
\* of the recorded completed trials (so its weights are that trial's weights)
\* and no recorded trial has a greater score: best score = max of the scores.
C1_BestIsMax ==
    Completed # {} =>
        /\ study.best_trial # None
        /\ \E k \in Completed : study.trials[k] = study.best_trial
        /\ \A k \in Completed : RLeq(study.trials[k].value, study.best_trial.value)

\* two completed trials, the later one better: the best trial was replaced
C1_Witness ==
    /\ Len(study.trials) >= 2
    /\ Completed = DOMAIN study.trials
    /\ RLess(study.trials[1].value, study.trials[2].value)
    /\ study.best_trial = study.trials[2]

PhaseOrder ==
    { <<"Idle", "ProposeTrial">>, <<"ProposeTrial", "Rebuild">>, <<"Rebuild", "Refit">>,
      <<"Refit", "Evaluate">>, <<"Evaluate", "Record">>, <<"Record", "ProposeTrial">>,
      <<"Record", "Done">>, <<"Idle", "Done">>, <<"Refit", "Done">> }

C2_Step ==
    /\ pc' # pc => <<pc, pc'>> \in PhaseOrder
    \* a trial is proposed only when every earlier trial is recorded
    /\ pc' = "Rebuild" => trial'.number = Len(study.trials)
    /\ pc \in {"Rebuild", "Refit", "Evaluate"} =>
           /\ trial'.number = trial.number
           /\ (study' = study \/ pc' = "Done")
    \* Rebuild: the matrix of this trial's weights
    /\ (pc = "Rebuild" /\ pc' = "Refit") =>
           /\ rec'.strength_dict = trial.strength_dict
           /\ rec'.strength_vector = trial.strength_vector
           /\ rec'.numerical_bool_ratio = trial.numerical_bool_ratio
           /\ rec'.sparse_interaction_matrix =
                  GetSparseInteractionMatrix(CalculateStrength(rec')).sparse_interaction_matrix
    \* Refit: the factors of a fit on that matrix
    /\ (pc = "Refit" /\ pc' = "Evaluate") =>
           /\ rec'.sparse_interaction_matrix = rec.sparse_interaction_matrix
           /\ rec'.model = AlternatingLeastSquaresFit(PrepareModel(rec).model,
                                                      rec.sparse_interaction_matrix)
    \* Evaluate: the score of those factors; Record: that score, those weights
    /\ (pc = "Evaluate" /\ pc' = "Record") =>
           /\ rec' = rec
           /\ trial'.score = Evaluate(ev, rec)
    /\ pc = "Record" =>
           /\ Len(study'.trials) = Len(study.trials) + 1
           /\ LET t == study'.trials[Len(study'.trials)]
              IN  /\ t.number = trial.number
                  /\ t.params.strength_dict = rec.strength_dict
                  /\ t.value \in {trial.score, None}
                  /\ t.value = None <=> IsNaN(trial.score)

\* C2: the phases of a trial follow one another in the order ProposeTrial,
\* Rebuild, Refit, Evaluate, Record; a trial is proposed only after the previous
\* one is recorded; within a trial the matrix is the one of the trial's weights,
\* the factors are those of the fit on that matrix, and the recorded score is
\* the evaluation of those factors.
C2_PhasesInOrder == [][C2_Step]_vars

\* a second trial has been evaluated on its own refit
C2_Witness ==
    /\ pc = "Record"
    /\ trial.number = 1
    /\ rec.strength_dict = trial.strength_dict
    /\ rec.strength_dict # study.trials[1].params.strength_dict
    /\ ~IsNaN(trial.score)

IsPrefix(s, t) == Len(s) <= Len(t) /\ SubSeq(t, 1, Len(s)) = s

NoTrialFailed == \A k \in DOMAIN study.trials : study.trials[k].state = "COMPLETE"

\* C3: tune(n_trials) comes to its end; at the end, when no trial failed,
\* exactly n_trials trials are recorded; the recorded trials only grow (each
\* step keeps the trials recorded so far as they are) and never exceed the budget.
C3_TerminatesWithBudget ==
    /\ <>(pc = "Done")
    /\ []((pc = "Done" /\ NoTrialFailed) => Len(study.trials) = tune.n_trials)
    /\ [](tune # None => Len(study.trials) <= tune.n_trials)
    /\ [][IsPrefix(study.trials, study'.trials)]_vars

C3_Witness ==
    /\ pc = "Done"
    /\ NoTrialFailed
    /\ tune.n_trials = MaxTrials
    /\ Len(study.trials) = MaxTrials

Shape(r) == r.sparse_interaction_matrix.shape

IdColumns(r) == [i \in 1..Len(r.dataset) |-> <<r.dataset[i].user, r.dataset[i].item>>]

\* C4: no step of a tuning run, whatever the weights, changes user_id_to_index,
\* item_id_to_index, the row and column index streams or the matrix shape.
C4_RebuildKeepsIndexSpace ==
    [][/\ rec'.user_id_to_index = rec.user_id_to_index
       /\ rec'.item_id_to_index = rec.item_id_to_index
       /\ rec'.rows = rec.rows
       /\ rec'.cols = rec.cols
       /\ Shape(rec') = Shape(rec)
       /\ Shape(rec') = <<Len(rec'.user_id_to_index), Len(rec'.item_id_to_index)>>
       /\ DOMAIN rec'.sparse_interaction_matrix.data = 0..(Shape(rec)[1] - 1)]_vars

\* after a second rebuild, with weights other than the first trial's, the
\* values of the matrix differ from those the first trial was recorded with
C4_Witness ==
    /\ pc = "Refit"
    /\ trial.number = 1
    /\ rec.strength_dict # study.trials[1].params.strength_dict
    /\ \E u \in 0..(Shape(rec)[1] - 1) : \E i \in 0..(Shape(rec)[2] - 1) :
           rec.sparse_interaction_matrix.data[u][i] # FromInt(0)

FreshModel == [user_factors |-> None, item_factors |-> None]

\* C5 as claimed: the factors a trial is evaluated on are those of a fit that
\* starts from nothing but the seed, on the trial's matrix.
C5_RefitIsFresh ==
    pc = "Evaluate" =>
        rec.model = AlternatingLeastSquaresFit(FreshModel, rec.sparse_interaction_matrix)

\* C9 as claimed: with no held-out row retained, evaluation does not return:
\* the run is never about to record a score.
C9_EmptyEvaluationIsError ==
    Len(ev.user_evaluate_indice) = 0 => pc # "Record"

(***************************************************************************)
(* The preprocessing run: InteractionPreprocessor.preprocess(), entered by *)
(* __init__, one action per statement (lines 187-191), over every dataset  *)
(* of at most MaxRows rows drawn from RowKinds.                            *)
(***************************************************************************)
MaxRows == 2

UserIds == {20, 10}

ItemIds == {8, 7}

\* (label, column A, column B) of a row
Signals ==
    { <<(<<1>>), <<1>>, <<0>>>>,
      <<(<<3, 1>>), <<1, 2>>, <<2>>>>,
      <<(<<2>>), <<4>>, <<2>>>>,
      <<(<<>>), <<0>>, <<5>>>> }

RowKinds ==
    { RawRow(u, i, sg[1], Cells(sg[2], sg[3])) : u \in UserIds, i \in ItemIds, sg \in Signals }

SeqsUpTo(S, n) == UNION { [1..k -> S] : k \in 1..n }

\* weights {A: 0.5, B: 1.5}, boolean vector [1.0, 2.0], ratio 1.0
ConfigHalves ==
    [percentile |-> DefaultPercentile,
     numerical_strength_dict |->
         << [key |-> "A", value |-> Rat(1, 2)], [key |-> "B", value |-> Rat(3, 2)] >>,
     bool_strength_vector |-> << FromInt(1), FromInt(2) >>,
     numerical_bool_ratio |-> FromInt(1)]

\* a numeric weight mapping with a key that is no column of the dataset
ConfigMissingKey(keys) ==
    [percentile |-> DefaultPercentile,
     numerical_strength_dict |-> [k \in DOMAIN keys |-> [key |-> keys[k], value |-> FromInt(1)]],
     bool_strength_vector |-> << FromInt(1) >>,
     numerical_bool_ratio |-> FromInt(1)]

PreConfigs ==
    { ConfigTwoKeys,
      [percentile |-> <<1, 2>>,
       numerical_strength_dict |-> << [key |-> "B", value |-> FromInt(3)] >>,
       bool_strength_vector |-> << FromInt(1), FromInt(3) >>,
       numerical_bool_ratio |-> FromInt(3)],
      [percentile |-> DefaultPercentile,
       numerical_strength_dict |-> << >>,
       bool_strength_vector |-> << FromInt(3), FromInt(1) >>,
       numerical_bool_ratio |-> FromInt(1)],
      ConfigHalves,
      ConfigMissingKey(<<"A", "Z">>),
      ConfigMissingKey(<<"Z", "A">>) }

InitPre ==
    /\ \E dataset \in SeqsUpTo(RowKinds, MaxRows), config \in PreConfigs :
           rec = NewRecommender(dataset, config)
    /\ pc = "merge"
    /\ ev = None
    /\ study = None
    /\ trial = None
    /\ tune = None
    /\ aux = None

MergeStep ==
    /\ pc = "merge"
    /\ ~KeyErrorRaised(rec.dataset, Keys(rec.strength_dict))
    /\ rec' = MergeSequences(rec)
    /\ pc' = "normalize"
    /\ UNCHANGED <<ev, study, trial, tune, aux>>

\* _merge_sequences raising: preprocess() and __init__ end with the exception
MergeStepRaises ==
    /\ pc = "merge"
    /\ KeyErrorRaised(rec.dataset, Keys(rec.strength_dict))
    /\ rec' = MergeSequences(rec)
    /\ pc' = "KeyError"
    /\ UNCHANGED <<ev, study, trial, tune, aux>>

\* a faulty variant: the columns are weighted first and normalised afterwards
NormalizeStepAfterWeighting ==
    /\ pc = "normalize"
    /\ rec' = NormalizeWithPercentileCap(CalculateStrength(rec))
    /\ pc' = "strength"
    /\ UNCHANGED <<ev, study, trial, tune, aux>>

NormalizeStep ==
    /\ pc = "normalize"
    /\ rec' = NormalizeWithPercentileCap(rec)
    /\ pc' = "strength"
    /\ UNCHANGED <<ev, study, trial, tune, aux>>

StrengthStep ==
    /\ pc = "strength"
    /\ rec' = CalculateStrength(rec)
    /\ pc' = "index"
    /\ UNCHANGED <<ev, study, trial, tune, aux>>

IndexStep ==
    /\ pc = "index"
    /\ rec' = GetIdIndexMapping(rec)
    /\ pc' = "matrix"
    /\ UNCHANGED <<ev, study, trial, tune, aux>>

MatrixStep ==
    /\ pc = "matrix"
    /\ rec' = GetSparseInteractionMatrix(rec)
    /\ pc' = "ready"
    /\ UNCHANGED <<ev, study, trial, tune, aux>>

NextPre ==
    \/ MergeStep
    \/ MergeStepRaises
    \/ NormalizeStep
    \/ StrengthStep
    \/ IndexStep
    \/ MatrixStep

SpecPre == InitPre /\ [][NextPre]_vars

UserColumn(r) == [t \in 1..Len(r.dataset) |-> r.dataset[t].user]

ItemColumn(r) == [t \in 1..Len(r.dataset) |-> r.dataset[t].item]

StrengthsOf(r, user, item) ==
    LET hit(row) == row.user = user /\ row.item = item
        rows == SelectSeq(r.dataset, hit)
    IN  [t \in 1..Len(rows) |-> rows[t].strength]

\* C6: in the assembled matrix the entry of every (user index, item index)
\* pair is the sum of the strengths of the dataset rows of that user and item,
\* 0 when there is no such row.
C6_EntriesSumDuplicates ==
    pc = "ready" =>
        \A user \in Range(UserColumn(rec)), item \in Range(ItemColumn(rec)) :
            rec.sparse_interaction_matrix.data
                [Get(rec.user_id_to_index, user)][Get(rec.item_id_to_index, item)]
            = RSum(StrengthsOf(rec, user, item))

\* two rows of one pair, of the same strength s # 0: the entry is 2s, not s;
\* and a pair with no row, whose entry is 0
C6_Witness ==
    /\ pc = "ready"
    /\ Len(rec.dataset) = 2
    /\ rec.dataset[1] = rec.dataset[2]
    /\ ~IsNaN(rec.dataset[1].strength)
    /\ rec.dataset[1].strength # FromInt(0)
    /\ rec.sparse_interaction_matrix.data[0][0] = RMul(FromInt(2), rec.dataset[1].strength)

FirstPosition(column, id) ==
    CHOOSE t \in DOMAIN column : column[t] = id /\ \A q \in 1..(t - 1) : column[q] # id

FirstAppearanceIndex(column, id) ==
    Cardinality({ other \in Range(column) :
                    FirstPosition(column, other) < FirstPosition(column, id) })

IsFirstAppearanceMapping(dict, column) ==
    /\ Range(Keys(dict)) = Range(column)
    /\ Len(dict) = Cardinality(Range(column))
    /\ \A id \in Range(column) : Get(dict, id) = FirstAppearanceIndex(column, id)
    /\ Range(Values(dict)) = 0..(Cardinality(Range(column)) - 1)
    /\ \A a, b \in DOMAIN dict : dict[a].value = dict[b].value => a = b

\* C7: for the user column and for the item column, each distinct id is mapped
\* to the number of distinct ids that first appear before it in row order; the
\* mapping is injective and its values are exactly 0..n-1.
C7_FirstAppearanceOrder ==
    pc \in {"matrix", "ready"} =>
        /\ IsFirstAppearanceMapping(rec.user_id_to_index, UserColumn(rec))
        /\ IsFirstAppearanceMapping(rec.item_id_to_index, ItemColumn(rec))

\* the larger user id comes first and gets index 0: not sorted by value
C7_Witness ==
    /\ pc = "matrix"
    /\ Len(rec.dataset) = 2
    /\ rec.dataset[1].user > rec.dataset[2].user
    /\ Get(rec.user_id_to_index, rec.dataset[1].user) = 0
    /\ Get(rec.user_id_to_index, rec.dataset[2].user) = 1
    /\ rec.dataset[1].item = rec.dataset[2].item
    /\ Len(rec.item_id_to_index) = 1

NoNaNInColumns(r) ==
    \A t \in 1..Len(r.dataset), k \in DOMAIN r.strength_dict :
        ~IsNaN(r.dataset[t].num[r.strength_dict[k].key].v)

\* C10 as claimed: a column that is constant after capping stops the run with
\* an error, so no NaN is in a selected column when strengths are computed
\* and none is in the assembled matrix.
C10_DegenerateColumnIsError ==
    /\ pc \in {"strength", "index", "matrix", "ready"} => NoNaNInColumns(rec)
    /\ pc = "ready" => ~HasNaN(rec.sparse_interaction_matrix)

(***************************************************************************)
(* Evaluation of held-out sets: ImplicitALSEvaluator.__init__ (the mapping *)
(* of line 38) and evaluate(), on a fitted recommender, for a held-out set *)
(* of at most MaxHeld rows and for the same set with one more row, of an   *)
(* id the recommender has not seen, put in at any position.  ev is the     *)
(* evaluator of the set, aux that of the set with the row.                 *)
(***************************************************************************)
MaxHeld == 2

HeldOutRows ==
    { HeldOutRow(u, i, FromInt(1)) : u \in {20, 10, 30}, i \in {8, 7, 9} }
        \cup { HeldOutRow(20, 8, NaN), HeldOutRow(30, 9, NaN) }

PaddingRows ==
    { HeldOutRow(30, 8, FromInt(1)), HeldOutRow(10, 9, FromInt(1)),
      HeldOutRow(30, 9, FromInt(1)) }

InsertAt(s, p, row) == SubSeq(s, 1, p) \o <<row>> \o SubSeq(s, p + 1, Len(s))

FittedSetups ==
    { [dataset |-> DatasetDup, config |-> ConfigTwoKeys],
      [dataset |-> DatasetPlain, config |-> ConfigOneKey] }

InitEval ==
    /\ \E setup \in FittedSetups :
           rec = Fit(Preprocess(NewRecommender(setup.dataset, setup.config)))
    /\ \E heldout \in {<<>>} \cup SeqsUpTo(HeldOutRows, MaxHeld) :
       \E position \in 0..Len(heldout), padding \in PaddingRows :
           /\ ev = [dataset |-> heldout]
           /\ aux = [dataset |-> InsertAt(heldout, position, padding)]
    /\ trial = [score |-> None, padded_score |-> None]
    /\ pc = "new"
    /\ study = None
    /\ tune = None

\* __init__, line 38, of the two evaluators
Construct ==
    /\ pc = "new"
    /\ ev' = MapIdToIndex(ev.dataset, rec)
    /\ aux' = MapIdToIndex(aux.dataset, rec)
    /\ pc' = "mapped"
    /\ UNCHANGED <<rec, study, trial, tune>>

\* evaluate() of the two evaluators
EvaluateBoth ==
    /\ pc = "mapped"
    /\ trial' = [score |-> Evaluate(ev, rec), padded_score |-> Evaluate(aux, rec)]
    /\ pc' = "evaluated"
    /\ UNCHANGED <<rec, ev, study, tune, aux>>

NextEval ==
    \/ Construct
    \/ EvaluateBoth

SpecEval == InitEval /\ [][NextEval]_vars

\* C8: a held-out row of an unseen user or item is dropped by the mapping, and
\* the score of a held-out set with such a row added is the score of the
\* set without it.
C8_UnseenRowIsIgnored ==
    /\ pc \in {"mapped", "evaluated"} =>
           /\ aux.dataset = ev.dataset
           /\ aux.user_evaluate_indice = ev.user_evaluate_indice
           /\ aux.item_evaluate_indice = ev.item_evaluate_indice
    /\ pc = "evaluated" => trial.padded_score = trial.score

\* two different rows are retained, of the set and of the set with the
\* unseen row alike, and the score is a number other than 0
C8_Witness ==
    /\ pc = "evaluated"
    /\ Len(ev.dataset) = 2
    /\ Len(aux.dataset) = 2
    /\ ev.dataset[1] # ev.dataset[2]
    /\ ~IsNaN(trial.score)
    /\ trial.score # FromInt(0)
    /\ trial.padded_score = trial.score

\* the raw dot product of the factor vectors of the k-th retained row
RowDot(k) ==
    LET u == rec.model.user_factors[RFloor(ev.dataset[k].user_map)]
        v == rec.model.item_factors[RFloor(ev.dataset[k].item_map)]
    IN  IntSum([f \in 1..MaxFactors |-> u[f] * v[f]])

\* C22: the score of a held-out set with retained rows is the arithmetic
\* mean over the retained rows, each counted once and duplicates included, of
\* the raw dot product of the row's user vector and item vector: the score
\* times the number of retained rows is the sum of the dot products.
C22_ScoreIsMeanOfDots ==
    (pc = "evaluated" /\ Len(ev.dataset) > 0) =>
        /\ ~IsNaN(trial.score)
        /\ RMul(trial.score, FromInt(Len(ev.dataset))) =
               FromInt(IntSum([k \in 1..Len(ev.dataset) |-> RowDot(k)]))

\* the same row is retained twice and the score is a number other than 0
C22_Witness ==
    /\ pc = "evaluated"
    /\ Len(ev.dataset) = 2
    /\ ev.dataset[1] = ev.dataset[2]
    /\ RowDot(1) # 0
    /\ trial.score = FromInt(RowDot(1))

\* the held-out rows whose user id and item id are both keys of the mapping
KnownRows(dataset, r) ==
    LET Known(row) == /\ HasKey(r.user_id_to_index, row.user)
                      /\ HasKey(r.item_id_to_index, row.item)
    IN  SelectSeq(dataset, Known)

\* the columns a held-out row is given with
GivenColumns(dataset) ==
    [k \in 1..Len(dataset) |->
        [user |-> dataset[k].user, item |-> dataset[k].item, extra |-> dataset[k].extra]]

C26_Step ==
    pc = "new" =>
        /\ GivenColumns(ev'.dataset) = GivenColumns(KnownRows(ev.dataset, rec))
        /\ Len(ev'.user_evaluate_indice) = Len(KnownRows(ev.dataset, rec))
        /\ Len(ev'.item_evaluate_indice) = Len(KnownRows(ev.dataset, rec))

\* C26: the evaluator retains, in their order, exactly the held-out rows
\* whose user id and item id are both in the index mapping, whatever their
\* other columns hold, and reads one index pair for each of them.
C26_KnownRowsRetained == [][C26_Step]_vars

AllCellsRaw(r) ==
    \A t \in 1..Len(r.dataset) : \A col \in DOMAIN r.dataset[t].num :
        r.dataset[t].num[col].kind = "list"

\* C11 as claimed: when a key of the numeric weight mapping is no column, the
\* run ends with the error and no column of the dataset has been modified:
\* every cell still holds its sequence.
C11_MissingKeyFailsFast == pc = "KeyError" => AllCellsRaw(rec)

Raised == tune # None /\ tune.error # "none"

C12_Step ==
    \* the exception of a raising fit leaves tune
    /\ (pc = "Refit" /\ ModelFitError(FitModel(rec).model)) =>
           /\ tune'.error = "ModelFitError"
           /\ pc' = "Done"
    \* nothing runs once the exception has left tune
    /\ Raised => UNCHANGED vars

\* C12: an exception raised within a trial leaves tune and ends the run: the
\* run is at its end with the exception, no trial is started after the failed
\* one, and the failed trial is stored as failed, without a score.
C12_ExceptionAbortsRun ==
    /\ [](Raised =>
            /\ pc = "Done"
            /\ Len(study.trials) = trial.number + 1
            /\ study.trials[Len(study.trials)].state = "FAIL"
            /\ study.trials[Len(study.trials)].value = None)
    /\ [][C12_Step]_vars

\* the first trial raised while the budget allowed another one
C12_Witness ==
    /\ Raised
    /\ pc = "Done"
    /\ Len(study.trials) = 1
    /\ tune.n_trials = 2

\* the columns a rebuild reads: ids, labels and the normalised numeric columns
InputColumns(r) ==
    [t \in 1..Len(r.dataset) |->
        [user |-> r.dataset[t].user, item |-> r.dataset[t].item,
         label |-> r.dataset[t].label, num |-> r.dataset[t].num]]

\* the matrix a rebuild with the trial's weights gives on a recommender that
\* has only been preprocessed (normalised once, never rebuilt) and has the
\* input columns of r
MatrixOfFirstRebuild(r) ==
    LET bases == { Preprocess(NewRecommender(s.dataset, s.config)) : s \in TuneSetups }
        base  == CHOOSE b \in bases : InputColumns(b) = InputColumns(r)
    IN  UpdateSparseInteractionMatrix(base, trial.strength_dict, trial.strength_vector,
                                      trial.numerical_bool_ratio).sparse_interaction_matrix

C27_Step ==
    \* no step changes the labels or the normalised columns
    /\ InputColumns(rec') = InputColumns(rec)
    /\ pc = "Rebuild" =>
           \* the columns are those normalised once by preprocess()
           /\ \E s \in TuneSetups :
                  InputColumns(Preprocess(NewRecommender(s.dataset, s.config)))
                      = InputColumns(rec)
           \* whatever rebuilds came before, the matrix is that of a first rebuild
           /\ rec'.sparse_interaction_matrix = MatrixOfFirstRebuild(rec)
           \* a second rebuild with the same weights changes nothing
           /\ UpdateSparseInteractionMatrix(rec', trial.strength_dict, trial.strength_vector,
                                            trial.numerical_bool_ratio) = rec'

C28_InBounds ==
    /\ \A k \in DOMAIN ev.user_evaluate_indice :
           /\ ev.user_evaluate_indice[k] \in 0..(Len(rec.user_id_to_index) - 1)
           /\ ev.user_evaluate_indice[k] \in 0..(Shape(rec)[1] - 1)
           /\ pc = "Evaluate" => ev.user_evaluate_indice[k] \in DOMAIN rec.model.user_factors
    /\ \A k \in DOMAIN ev.item_evaluate_indice :
           /\ ev.item_evaluate_indice[k] \in 0..(Len(rec.item_id_to_index) - 1)
           /\ ev.item_evaluate_indice[k] \in 0..(Shape(rec)[2] - 1)
           /\ pc = "Evaluate" => ev.item_evaluate_indice[k] \in DOMAIN rec.model.item_factors
    /\ pc = "Evaluate" =>
           /\ DOMAIN rec.model.user_factors = 0..(Len(rec.user_id_to_index) - 1)
           /\ DOMAIN rec.model.item_factors = 0..(Len(rec.item_id_to_index) - 1)

\* C28: the evaluation index lists, computed at the construction of the
\* evaluator, are changed by no step of a run, and in every state, after any
\* number of rebuilds and refits, every user index is below the number of
\* indexed users and every item index below the number of indexed items, so
\* that each names a row of the factor matrices the trial is evaluated on.
C28_EvaluationIndicesInBounds == []C28_InBounds /\ [][ev' = ev]_vars

\* the second trial is about to be evaluated on three retained rows, the
\* greatest user index and item index among them
C28_Witness ==
    /\ pc = "Evaluate"
    /\ trial.number = 1
    /\ Len(ev.user_evaluate_indice) = 3
    /\ \E k \in DOMAIN ev.user_evaluate_indice :
           ev.user_evaluate_indice[k] = Len(rec.user_id_to_index) - 1
    /\ \E k \in DOMAIN ev.item_evaluate_indice :
           ev.item_evaluate_indice[k] = Len(rec.item_id_to_index) - 1

\* the recommender has the weight schema of the configuration it was built with
ConfiguredSchema ==
    \E s \in TuneSetups :
        /\ InputColumns(Preprocess(NewRecommender(s.dataset, s.config))) = InputColumns(rec)
        /\ Keys(rec.strength_dict) = Keys(s.config.numerical_strength_dict)
        /\ Len(rec.strength_vector) = Len(s.config.bool_strength_vector)

C29_Step ==
    \* the recommender keeps its schema when a trial overwrites its weights
    /\ Keys(rec'.strength_dict) = Keys(rec.strength_dict)
    /\ Len(rec'.strength_vector) = Len(rec.strength_vector)
    \* the trial proposed from the recommender has the schema
    /\ pc = "ProposeTrial" =>
           /\ Keys(trial'.strength_dict) = Keys(rec.strength_dict)
           /\ Len(trial'.strength_vector) = Len(rec.strength_vector)
    \* and so has the trial stored in the study
    /\ Len(study'.trials) > Len(study.trials) =>
           LET params == study'.trials[Len(study'.trials)].params
           IN  /\ Keys(params.strength_dict) = Keys(rec.strength_dict)
               /\ Len(params.strength_vector) = Len(rec.strength_vector)

\* C29: the recommender starts with the configured schema, and in every
\* trial, the later ones proposed from the weights the trial before wrote
\* into the recommender, the numeric weight mapping has the same keys in the
\* same order and the boolean weight vector the same length.
C29_SchemaPreserved == ConfiguredSchema /\ [][C29_Step]_vars

\* the second trial is proposed, for two keys, from the weights of the first
\* trial, which differ from its own
C29_Witness ==
    /\ pc = "Rebuild"
    /\ trial.number = 1
    /\ rec.strength_dict = study.trials[1].params.strength_dict
    /\ Keys(trial.strength_dict) = <<"A", "B">>
    /\ Values(trial.strength_dict) # Values(rec.strength_dict)
    /\ Values(trial.strength_dict)[1] # Values(trial.strength_dict)[2]

LastTrial == study.trials[Len(study.trials)]

\* C30: when a run with at least one trial is over, the recommender holds
\* the weights of the last executed trial and the strengths and the matrix
\* rebuilt from them; when the run ended without an exception its factor
\* matrices are those of the last trial's fit, the ones that trial's score
\* was computed on.  The best trial's configuration is not put back.
C30_LastTrialKept ==
    (pc = "Done" /\ Len(study.trials) > 0) =>
        /\ rec.strength_dict = LastTrial.params.strength_dict
        /\ rec.strength_vector = LastTrial.params.strength_vector
        /\ rec.numerical_bool_ratio = LastTrial.params.numerical_bool_ratio
        /\ rec = UpdateSparseInteractionMatrix(rec, LastTrial.params.strength_dict,
                                               LastTrial.params.strength_vector,
                                               LastTrial.params.numerical_bool_ratio)
        /\ tune.error = "none" =>
               /\ rec.user_factors = rec.model.user_factors
               /\ rec.item_factors = rec.model.item_factors
               /\ LastTrial.state = "COMPLETE" => LastTrial.value = Evaluate(ev, rec)
               /\ LastTrial.state = "FAIL" => IsNaN(Evaluate(ev, rec))

\* the run is over, the first of two trials is the best one, and the
\* recommender holds the weights and the score of the second
C30_Witness ==
    /\ pc = "Done"
    /\ Len(study.trials) = 2
    /\ study.best_trial = study.trials[1]
    /\ study.trials[2].state = "COMPLETE"
    /\ RLess(study.trials[2].value, study.trials[1].value)
    /\ study.trials[2].params # study.trials[1].params
    /\ rec.strength_dict = study.trials[2].params.strength_dict
    /\ rec.strength_dict # study.best_trial.params.strength_dict
    /\ Evaluate(ev, rec) = study.trials[2].value

WeightedColumns(r, row) ==
    [k \in DOMAIN r.strength_dict |->
        RMul(Get(r.strength_dict, Keys(r.strength_dict)[k]),
             row.num[Keys(r.strength_dict)[k]].v)]

WeightedFlags(r, row) ==
    [j \in DOMAIN r.strength_vector |->
        RMul(FromInt(label_list_to_vector(row.label, Len(r.strength_vector))[j]),
             r.strength_vector[j])]

\* C13: once the strengths are computed, for every row numerical_strength is
\* the sum over the configured columns of the column's own weight times the
\* row's normalised value, bool_strength is the sum of the decoded label
\* entries times the boolean weights, and strength is numerical_strength times
\* the ratio plus bool_strength, the boolean part not scaled.  With weights
\* {A: 1/2, B: 3/2}, vector [1, 2], ratio 1, values A = 1, B = 1 and label bits
\* [1, 0] these are 2, 1 and 3.
C13_StrengthFormula ==
    pc \in {"index", "matrix", "ready"} =>
        \A t \in 1..Len(rec.dataset) :
            LET row == rec.dataset[t]
            IN  /\ row.numerical_strength = RSum(WeightedColumns(rec, row))
                /\ row.bool_strength = RSum(WeightedFlags(rec, row))
                /\ row.strength =
                       RAdd(RMul(row.numerical_strength, rec.numerical_bool_ratio),
                            row.bool_strength)
                /\ ( /\ rec.strength_dict = ConfigHalves.numerical_strength_dict
                     /\ rec.strength_vector = ConfigHalves.bool_strength_vector
                     /\ rec.numerical_bool_ratio = FromInt(1)
                     /\ row.num["A"].v = FromInt(1)
                     /\ row.num["B"].v = FromInt(1)
                     /\ label_list_to_vector(row.label, 2) = <<1, 0>> )
                   => /\ row.numerical_strength = FromInt(2)
                      /\ row.bool_strength = FromInt(1)
                      /\ row.strength = FromInt(3)

\* the row of the example
C13_Witness ==
    /\ pc = "index"
    /\ rec.strength_dict = ConfigHalves.numerical_strength_dict
    /\ rec.strength_vector = ConfigHalves.bool_strength_vector
    /\ \E t \in 1..Len(rec.dataset) :
           /\ rec.dataset[t].num["A"].v = FromInt(1)
           /\ rec.dataset[t].num["B"].v = FromInt(1)
           /\ label_list_to_vector(rec.dataset[t].label, 2) = <<1, 0>>
           /\ rec.dataset[t].numerical_strength = FromInt(2)
           /\ rec.dataset[t].bool_strength = FromInt(1)
           /\ rec.dataset[t].strength = FromInt(3)

(***************************************************************************)
(* The boolean merger: merge_bool_interactions_with_strength on a          *)
(* DataFrame of one row, for every label cell that is an integer of        *)
(* LabelValues or a list of at most MaxList of them, and boolean weight    *)
(* vectors of lengths 1 to 3.  The loop that decodes the labels (lines     *)
(* 75-78) and the dot product (lines 79-81) are one action each; aux holds *)
(* strength_list, the decoded vectors.                                     *)
(***************************************************************************)
MaxLabel == 7

MaxList == 2

LabelValues == (0 - 2)..MaxLabel

LabelWeights ==
    { << FromInt(3) >>, << FromInt(1), FromInt(2) >>, << FromInt(3), FromInt(1), FromInt(2) >> }

LabelRows ==
    { RawRowIntLabel(20, 8, label, Cells(<<1>>, <<0>>)) : label \in LabelValues }
        \cup { RawRow(20, 8, label_list, Cells(<<1>>, <<0>>)) :
                  label_list \in {<<>>} \cup SeqsUpTo(LabelValues, MaxList) }

InitLabel ==
    /\ \E row \in LabelRows, strength_vector \in LabelWeights :
           rec = NewRecommender(<<row>>,
                                [percentile |-> DefaultPercentile,
                                 numerical_strength_dict |-> << >>,
                                 bool_strength_vector |-> strength_vector,
                                 numerical_bool_ratio |-> FromInt(1)])
    /\ pc = "labels"
    /\ aux = [strength_list |-> << >>]
    /\ ev = None
    /\ study = None
    /\ trial = None
    /\ tune = None

\* lines 75-78: strength_list.append(label_list_to_vector(label, len(strength_vector)))
DecodeLabels ==
    /\ pc = "labels"
    /\ ~TypeErrorRaised(rec.dataset)
    /\ aux' = [strength_list |->
                  [i \in 1..Len(rec.dataset) |->
                      label_list_to_vector(rec.dataset[i].label, Len(rec.strength_vector))]]
    /\ pc' = "decoded"
    /\ UNCHANGED <<rec, ev, study, trial, tune>>

\* line 78 raising for a label that is no list
DecodeRaises ==
    /\ pc = "labels"
    /\ TypeErrorRaised(rec.dataset)
    /\ pc' = "TypeError"
    /\ UNCHANGED <<rec, ev, study, trial, tune, aux>>

\* lines 79-81: the dot product, stored as the column bool_strength
DotLabels ==
    /\ pc = "decoded"
    /\ rec' = [rec EXCEPT !.dataset =
                  merge_bool_interactions_with_strength(rec.dataset, rec.strength_vector)]
    /\ pc' = "merged"
    /\ UNCHANGED <<ev, study, trial, tune, aux>>

NextLabel ==
    \/ DecodeLabels
    \/ DecodeRaises
    \/ DotLabels

SpecLabel == InitLabel /\ [][NextLabel]_vars

\* bit b of an integer: set when the remainder by 2^(b+1) reaches 2^b
BitOf(label, b) == IF label % Pow2(b + 1) >= Pow2(b) THEN 1 ELSE 0

FieldNum == Len(rec.strength_vector)

\* C14: label_to_vector(label, field_num) has length field_num, its i-th
\* entry (i from 0) is bit field_num-1-i of label, and it is the vector of
\* label mod 2^field_num; the decoded vector of a one-element list is that
\* vector.
C14_LowBitsMostSignificantFirst ==
    pc \in {"decoded", "merged"} =>
        \A k \in DOMAIN rec.dataset[1].label :
            LET label == rec.dataset[1].label[k]
                v     == label_to_vector(label, FieldNum)
            IN  /\ Len(v) = FieldNum
                /\ \A i \in 0..(FieldNum - 1) : v[i + 1] = BitOf(label, FieldNum - 1 - i)
                /\ v = label_to_vector(label % Pow2(FieldNum), FieldNum)
                /\ Len(rec.dataset[1].label) = 1 => aux.strength_list[1] = v

\* label 5 decoded with two fields: bit 2 is ignored, the vector is that of 1
C14_Witness ==
    /\ pc = "decoded"
    /\ rec.dataset[1].label = <<5>>
    /\ FieldNum = 2
    /\ aux.strength_list[1] = <<0, 1>>

FlagCount(label_list, j) ==
    Cardinality({ k \in DOMAIN label_list : BitOf(label_list[k], FieldNum - j) = 1 })

FlagOr(label_list) ==
    [j \in 1..FieldNum |-> IF FlagCount(label_list, j) > 0 THEN 1 ELSE 0]

\* C15: the decoded vector of a list label holds, at each position, the
\* number of elements of the list in which that flag is set (0 everywhere for
\* the empty list); when a flag is set in two or more elements the vector
\* differs from the vector of the bitwise OR of the elements.
C15_ListLabelsAreSummed ==
    pc \in {"decoded", "merged"} =>
        LET label_list == rec.dataset[1].label
            v          == aux.strength_list[1]
        IN  /\ Len(v) = FieldNum
            /\ \A j \in 1..FieldNum : v[j] = FlagCount(label_list, j)
            /\ label_list = <<>> => \A j \in 1..FieldNum : v[j] = 0
            /\ (\E j \in 1..FieldNum : FlagCount(label_list, j) >= 2) => v # FlagOr(label_list)
            /\ (\A j \in 1..FieldNum : FlagCount(label_list, j) <= 1) => v = FlagOr(label_list)

\* [3, 1] with two fields: the low flag is set twice
C15_Witness ==
    /\ pc = "decoded"
    /\ rec.dataset[1].label = <<3, 1>>
    /\ FieldNum = 2
    /\ aux.strength_list[1] = <<1, 2>>

BoolStrengthOf(label) ==
    RSum([j \in 1..FieldNum |->
             RMul(FromInt(label_to_vector(label, FieldNum)[j]), rec.strength_vector[j])])

\* C16 as claimed: a label cell holding the single integer L is accepted, and
\* the row gets bool_strength = dot(label_to_vector(L, n), weights), as the
\* one-element list [L] does.
C16_SingleIntegerAccepted ==
    rec.dataset[1].label_kind = "int" =>
        /\ pc # "TypeError"
        /\ pc = "merged" => rec.dataset[1].bool_strength = BoolStrengthOf(rec.dataset[1].label[1])

Encode(v) == IntSum([i \in 1..Len(v) |-> v[i] * Pow2(Len(v) - i)])

\* C17: for every 0/1 vector v of length field_num, label_to_vector of the
\* integer sum of v[i] * 2^(field_num-1-i) is v; and the decoded vector of an
\* integer x with 0 <= x < 2^field_num encodes back to x.
C17_RoundTrip ==
    pc \in {"decoded", "merged"} =>
        /\ \A v \in [1..FieldNum -> {0, 1}] : label_to_vector(Encode(v), FieldNum) = v
        /\ \A x \in 0..(Pow2(FieldNum) - 1) : Encode(label_to_vector(x, FieldNum)) = x
        /\ LET label_list == rec.dataset[1].label
           IN  (Len(label_list) = 1 /\ label_list[1] \in 0..(Pow2(FieldNum) - 1)) =>
                   Encode(aux.strength_list[1]) = label_list[1]

\* 6 decoded with three fields is [1, 1, 0], which encodes back to 6
C17_Witness ==
    /\ pc = "decoded"
    /\ rec.dataset[1].label = <<6>>
    /\ FieldNum = 3
    /\ aux.strength_list[1] = <<1, 1, 0>>
    /\ Encode(aux.strength_list[1]) = 6

(***************************************************************************)
(* normalize_with_percentile_cap on one column: every column of at most    *)
(* MaxValues values of ColumnValues, every percentile of Percentiles.  The *)
(* cap (lines 32-33) and the rescale (lines 34-36) are one action each;    *)
(* aux holds the column as given, as capped and as normalised.             *)
(***************************************************************************)
MaxValues == 3

ColumnValues == { FromInt(0 - 1), FromInt(0), FromInt(2), FromInt(5) }

Percentiles == { Rat(1, 2), Rat(9, 10), DefaultPercentile, FromInt(1) }

InitNorm ==
    /\ \E values \in SeqsUpTo(ColumnValues, MaxValues), percentile \in Percentiles :
           aux = [values |-> values, percentile |-> percentile,
                  capped |-> None, normalized |-> None]
    /\ pc = "cap"
    /\ rec = None
    /\ ev = None
    /\ study = None
    /\ trial = None
    /\ tune = None

CapStep ==
    /\ pc = "cap"
    /\ aux' = [aux EXCEPT !.capped = CapColumn(aux.values, aux.percentile)]
    /\ pc' = "rescale"
    /\ UNCHANGED <<rec, ev, study, trial, tune>>

RescaleStep ==
    /\ pc = "rescale"
    /\ aux' = [aux EXCEPT !.normalized = MinMaxColumn(aux.capped)]
    /\ pc' = "normalized"
    /\ UNCHANGED <<rec, ev, study, trial, tune>>

NextNorm ==
    \/ CapStep
    \/ RescaleStep

SpecNorm == InitNorm /\ [][NextNorm]_vars

Frame(values) ==
    [i \in 1..Len(values) |-> RawRow(20, 8, <<>>, [A |-> NumCell(values[i])])]

NonDegenerate(column) == \E i, j \in DOMAIN column : column[i] # column[j]

\* C18: when the capped column is not constant, every normalised value lies
\* in [0, 1], the least capped value becomes 0 and the greatest becomes 1; the
\* two steps together are normalize_with_percentile_cap on the column.
C18_NormalisedInUnitInterval ==
    pc = "normalized" =>
        /\ aux.normalized =
               ColValues(normalize_with_percentile_cap(Frame(aux.values), <<"A">>,
                                                       aux.percentile), "A")
        /\ NonDegenerate(aux.capped) =>
               \A i \in DOMAIN aux.capped :
                   /\ ~IsNaN(aux.normalized[i])
                   /\ RLeq(FromInt(0), aux.normalized[i])
                   /\ RLeq(aux.normalized[i], FromInt(1))
                   /\ (\A j \in DOMAIN aux.capped : RLeq(aux.capped[i], aux.capped[j]))
                          => aux.normalized[i] = FromInt(0)
                   /\ (\A j \in DOMAIN aux.capped : RLeq(aux.capped[j], aux.capped[i]))
                          => aux.normalized[i] = FromInt(1)

\* a column with a value strictly between the least and the greatest, the
\* least not 0
C18_Witness ==
    /\ pc = "normalized"
    /\ \E i, j, k \in DOMAIN aux.normalized :
           /\ aux.normalized[i] = FromInt(0)
           /\ aux.capped[i] # FromInt(0)
           /\ aux.normalized[k] = FromInt(1)
           /\ RLess(FromInt(0), aux.normalized[j])
           /\ RLess(aux.normalized[j], FromInt(1))

\* C19: capping replaces each value x by min(x, q), q the p-quantile of the
\* column: no value is raised, a value not above q is unchanged, a value
\* above q becomes q, and with p = 1 the column is unchanged.
C19_CapOnly ==
    pc \in {"rescale", "normalized"} =>
        LET q == Quantile(aux.values, aux.percentile)
        IN  /\ \A i \in DOMAIN aux.values :
                   /\ RLeq(aux.capped[i], aux.values[i])
                   /\ RLeq(aux.values[i], q) => aux.capped[i] = aux.values[i]
                   /\ RLess(q, aux.values[i]) => aux.capped[i] = q
            /\ DOMAIN aux.capped = DOMAIN aux.values
            /\ aux.percentile = FromInt(1) => aux.capped = aux.values

\* the greatest value is lowered to the quantile, the least is kept
C19_Witness ==
    /\ pc = "rescale"
    /\ aux.percentile = Rat(1, 2)
    /\ \E i, j \in DOMAIN aux.values :
           /\ RLess(aux.capped[i], aux.values[i])
           /\ aux.capped[j] = aux.values[j]
           /\ RLess(aux.capped[j], aux.capped[i])

PreOrder ==
    { <<"merge", "normalize">>, <<"normalize", "strength">>, <<"strength", "index">>,
      <<"index", "matrix">>, <<"matrix", "ready">>, <<"merge", "KeyError">> }

NoStrengthYet(r) == \A t \in 1..Len(r.dataset) : r.dataset[t].numerical_strength = None

StrengthsExist(r) ==
    \A t \in 1..Len(r.dataset) :
        /\ r.dataset[t].numerical_strength # None
        /\ r.dataset[t].strength # None

\* the column holds numbers, all NaN (constant column) or all within [0, 1]
\* with least value 0 and greatest value 1
MergedAndNormalised(r, col) ==
    /\ \A t \in 1..Len(r.dataset) : r.dataset[t].num[col].kind = "num"
    /\ LET column == ColValues(r.dataset, col)
       IN  \/ \A t \in DOMAIN column : IsNaN(column[t])
           \/ /\ \A t \in DOMAIN column :
                     /\ ~IsNaN(column[t])
                     /\ RLeq(FromInt(0), column[t])
                     /\ RLeq(column[t], FromInt(1))
              /\ \E t \in DOMAIN column : column[t] = FromInt(0)
              /\ \E t \in DOMAIN column : column[t] = FromInt(1)

C20_Step ==
    /\ pc' # pc => <<pc, pc'>> \in PreOrder
    \* the step that computes numerical_strength reads merged, normalised columns
    /\ (NoStrengthYet(rec) /\ ~NoStrengthYet(rec')) =>
           /\ pc = "strength"
           /\ \A k \in DOMAIN rec.strength_dict :
                  MergedAndNormalised(rec, rec.strength_dict[k].key)
    \* the index mapping is built from rows that have their strength
    /\ (rec.user_id_to_index = None /\ rec'.user_id_to_index # None) =>
           /\ StrengthsExist(rec)
           /\ rec.sparse_interaction_matrix = None
    \* the matrix is built after the index mapping
    /\ (rec.sparse_interaction_matrix = None /\ rec'.sparse_interaction_matrix # None) =>
           /\ StrengthsExist(rec)
           /\ rec.user_id_to_index # None
           /\ rec.item_id_to_index # None

\* C20: in every preprocessing run the steps follow the order merge,
\* normalise, strength, index, matrix: numerical_strength is first computed
\* from columns already merged and cap-normalised, and the index mapping and
\* the matrix are built only once the strengths exist.
C20_NormaliseBeforeWeighting == [][C20_Step]_vars

\* strengths just computed from two normalised columns that are not constant
C20_Witness ==
    /\ pc = "index"
    /\ Len(rec.strength_dict) = 2
    /\ StrengthsExist(rec)
    /\ rec.user_id_to_index = None
    /\ \A k \in DOMAIN rec.strength_dict :
           /\ MergedAndNormalised(rec, rec.strength_dict[k].key)
           /\ \E t \in 1..Len(rec.dataset) :
                  rec.dataset[t].num[rec.strength_dict[k].key].v = FromInt(1)

(***************************************************************************)
(* sequence_with_equal_importance on a frame whose configured columns hold *)
(* lists and scalars: every frame of at most MaxMergeRows rows with cells  *)
(* of MergeCellsA and MergeCellsB, every selection of the two columns.     *)
(* aux holds the frame and the selection; the call either returns or       *)
(* raises.                                                                 *)
(***************************************************************************)
MaxMergeRows == 2

MergeCellsA == { ListCell(<<1, 2>>), ListCell(<<>>), NumCell(FromInt(3)) }

MergeCellsB == { ListCell(<<4>>), NumCell(FromInt(0)) }

MergeRows == { [num |-> [A |-> a, B |-> b]] : a \in MergeCellsA, b \in MergeCellsB }

MergeSelections == { <<"A">>, <<"B">>, <<"A", "B">>, <<"B", "A">> }

InitMerge ==
    /\ \E interactions \in SeqsUpTo(MergeRows, MaxMergeRows),
          selected_columns \in MergeSelections :
           aux = [interactions |-> interactions, selected_columns |-> selected_columns]
    /\ pc = "new"
    /\ rec = None
    /\ ev = None
    /\ study = None
    /\ trial = None
    /\ tune = None

MergeCall ==
    /\ pc = "new"
    /\ ~SumTypeErrorRaised(aux.interactions, aux.selected_columns)
    /\ aux' = [aux EXCEPT !.interactions =
                   sequence_with_equal_importance(aux.interactions, aux.selected_columns)]
    /\ pc' = "merged"
    /\ UNCHANGED <<rec, ev, study, trial, tune>>

MergeCallRaises ==
    /\ pc = "new"
    /\ SumTypeErrorRaised(aux.interactions, aux.selected_columns)
    /\ aux' = [aux EXCEPT !.interactions =
                   sequence_with_equal_importance(aux.interactions, aux.selected_columns)]
    /\ pc' = "TypeError"
    /\ UNCHANGED <<rec, ev, study, trial, tune>>

NextMerge ==
    \/ MergeCall
    \/ MergeCallRaises

SpecMerge == InitMerge /\ [][NextMerge]_vars

\* the scalar the claim expects of a cell: the sum of a list, the scalar itself
ExpectedScalar(cell) ==
    IF cell.kind = "list" THEN NumCell(FromInt(IntSum(cell.v))) ELSE cell

C21_Step ==
    pc = "new" =>
        /\ pc' = "merged"
        /\ \A i \in DOMAIN aux.interactions, k \in DOMAIN aux.selected_columns :
               aux'.interactions[i].num[aux.selected_columns[k]] =
                   ExpectedScalar(aux.interactions[i].num[aux.selected_columns[k]])

\* C21: the merge of a frame whose configured columns hold lists or scalars
\* returns without an error, with every list cell replaced by the sum of its
\* elements and every scalar cell left as it is.
C21_ScalarCellsKept == [][C21_Step]_vars

(***************************************************************************)
(* aggregators/reduce_with_binary_or.py: calculate_binary_or on lists of   *)
(* non-negative integers.  Every outer list of at most MaxOuter sublists   *)
(* of at most MaxSub values of OrValues, and the list of the docstring.    *)
(* Line 22 (the OR of each sublist) and line 23 (the OR of the results)    *)
(* are one action each; aux holds the lists and the two results.           *)
(***************************************************************************)
\* a faulty variant: exclusive or
RECURSIVE BitXor(_, _)
BitXor(x, y) ==
    IF x = 0 THEN y
    ELSE IF y = 0 THEN x
    ELSE (IF x % 2 # y % 2 THEN 1 ELSE 0) + 2 * BitXor(x \div 2, y \div 2)

\* x | y of two non-negative integers
RECURSIVE BitOr(_, _)
BitOr(x, y) ==
    IF x = 0 THEN y
    ELSE IF y = 0 THEN x
    ELSE (IF x % 2 = 1 \/ y % 2 = 1 THEN 1 ELSE 0) + 2 * BitOr(x \div 2, y \div 2)

\* reduce(lambda x, y: x | y, sublist, initial): a fold from the left
RECURSIVE ReduceOr(_, _)
ReduceOr(sublist, initial) ==
    IF sublist = <<>> THEN initial
    ELSE ReduceOr(Tail(sublist), BitOr(initial, sublist[1]))

\* line 22
OrResults(lists) == [k \in 1..Len(lists) |-> ReduceOr(lists[k], 0)]

calculate_binary_or(lists) == ReduceOr(OrResults(lists), 0)

MaxOuter == 2

MaxSub == 2

OrValues == {1, 2, 6}

OrSublists == {<<>>} \cup SeqsUpTo(OrValues, MaxSub)

OrExample == << <<1, 2>>, <<4>>, <<8, 16>> >>

InitOr ==
    /\ \E lists \in {<<>>, OrExample} \cup SeqsUpTo(OrSublists, MaxOuter) :
           aux = [lists |-> lists, or_results |-> None, final_result |-> None]
    /\ pc = "sublists"
    /\ rec = None
    /\ ev = None
    /\ study = None
    /\ trial = None
    /\ tune = None

OrSublistsStep ==
    /\ pc = "sublists"
    /\ aux' = [aux EXCEPT !.or_results = OrResults(aux.lists)]
    /\ pc' = "final"
    /\ UNCHANGED <<rec, ev, study, trial, tune>>

OrFinalStep ==
    /\ pc = "final"
    /\ aux' = [aux EXCEPT !.final_result = ReduceOr(aux.or_results, 0)]
    /\ pc' = "returned"
    /\ UNCHANGED <<rec, ev, study, trial, tune>>

NextOr ==
    \/ OrSublistsStep
    \/ OrFinalStep

SpecOr == InitOr /\ [][NextOr]_vars

\* a faulty variant: the sequence is not reversed
Unreversed(s) == s

\* s[::-1]
Reversed(s) == [k \in 1..Len(s) |-> s[Len(s) + 1 - k]]

\* bits examined: every value of the inputs is below 2^OrBits
OrBits == 5

RECURSIVE Flatten(_)
Flatten(lists) == IF lists = <<>> THEN <<>> ELSE lists[1] \o Flatten(Tail(lists))

\* one element per sublist
Singletons(s) == [k \in 1..Len(s) |-> <<s[k]>>]

\* C23: the result has a bit exactly when some integer of some sublist has
\* it (0 when there is none); it is the result for the sublists in reverse
\* order with their elements reversed, for all elements in one sublist and
\* for one sublist per element; the lists of the docstring give 31.
C23_OrOfAllElements ==
    pc = "returned" =>
        /\ aux.final_result = calculate_binary_or(aux.lists)
        /\ aux.final_result \in 0..(Pow2(OrBits) - 1)
        /\ \A b \in 0..(OrBits - 1) :
               BitOf(aux.final_result, b) = 1 <=>
                   \E x \in Range(Flatten(aux.lists)) : BitOf(x, b) = 1
        /\ Flatten(aux.lists) = <<>> => aux.final_result = 0
        /\ aux.final_result =
               calculate_binary_or(Reversed([k \in 1..Len(aux.lists) |->
                                                Reversed(aux.lists[k])]))
        /\ aux.final_result = calculate_binary_or(<<Flatten(aux.lists)>>)
        /\ aux.final_result = calculate_binary_or(Singletons(Flatten(aux.lists)))
        /\ aux.lists = OrExample => aux.final_result = 31

\* two sublists that share a bit and differ in another
C23_Witness ==
    /\ pc = "returned"
    /\ aux.lists = << <<2, 6>>, <<6, 1>> >>
    /\ aux.or_results = <<6, 7>>
    /\ aux.final_result = 7

(***************************************************************************)
(* dataloaders/load_hdfs.py: HDFSDataloader.__iter__ hands one call of     *)
(* process_file per file to Parallel(n_jobs=num_jobs).  A file is the      *)
(* sequence of the integers its lines hold at mod_index; at most MaxFiles  *)
(* files of at most MaxLines lines.  The workers share the local file      *)
(* system: aux.exists tells whether the save directory exists,             *)
(* aux.outputs holds the pickle written for each file index.  A task runs  *)
(* process_file (the filter loop), then save_to_dataframe: the check of    *)
(* os.path.exists, os.makedirs when the check found no directory, and      *)
(* to_pickle, each a step of its own that other workers may interleave.    *)
(***************************************************************************)
MaxFiles == 2

MaxLines == 2

LineValues == {1, 2}

Mod == 2

\* filter_with_mod(parts, mod, mod_index): int(parts[mod_index]) % mod
filter_with_mod(part, mod) == part % mod

\* the loop of process_file: the lines whose remainder is self.remainder
Batches(lines, remainder) ==
    LET Keep(part) == filter_with_mod(part, Mod) = remainder
    IN  SelectSeq(lines, Keep)

NoOutput == [written |-> FALSE, rows |-> <<>>]

Running(tasks) ==
    Cardinality({t \in DOMAIN tasks :
                    tasks[t].pc \in {"save", "makedirs", "to_pickle"}})

InitLoad ==
    /\ \E file_list \in SeqsUpTo({<<>>} \cup SeqsUpTo(LineValues, MaxLines), MaxFiles),
          remainder \in 0..(Mod - 1), num_jobs \in 1..2, exists \in BOOLEAN :
           aux = [file_list |-> file_list, remainder |-> remainder,
                  num_jobs |-> num_jobs, exists |-> exists,
                  outputs |-> [file_index \in 0..(Len(file_list) - 1) |-> NoOutput],
                  tasks |-> [t \in 1..Len(file_list) |->
                                [pc |-> "queued", batches |-> <<>>]]]
    /\ pc = "parallel"
    /\ rec = None
    /\ ev = None
    /\ study = None
    /\ trial = None
    /\ tune = None

\* a free worker takes the task and runs process_file up to line 172
ProcessFile(t) ==
    /\ aux.tasks[t].pc = "queued"
    /\ Running(aux.tasks) < aux.num_jobs
    /\ aux' = [aux EXCEPT !.tasks[t] =
                   [pc |-> "save", batches |-> Batches(aux.file_list[t], aux.remainder)]]
    /\ UNCHANGED <<pc, rec, ev, study, trial, tune>>

\* _create_save_path, line 99: if not os.path.exists(self.save_path)
CheckSavePath(t) ==
    /\ aux.tasks[t].pc = "save"
    /\ aux' = [aux EXCEPT !.tasks[t].pc = IF aux.exists THEN "to_pickle" ELSE "makedirs"]
    /\ UNCHANGED <<pc, rec, ev, study, trial, tune>>

\* line 100: os.makedirs(self.save_path) creates the directory
MakeDirs(t) ==
    /\ aux.tasks[t].pc = "makedirs"
    /\ ~aux.exists
    /\ aux' = [aux EXCEPT !.exists = TRUE, !.tasks[t].pc = "to_pickle"]
    /\ UNCHANGED <<pc, rec, ev, study, trial, tune>>

\* line 100: os.makedirs raises FileExistsError when the directory exists
MakeDirsRaises(t) ==
    /\ aux.tasks[t].pc = "makedirs"
    /\ aux.exists
    /\ aux' = [aux EXCEPT !.tasks[t].pc = "FileExistsError"]
    /\ UNCHANGED <<pc, rec, ev, study, trial, tune>>

\* lines 188-191: df.to_pickle(save_path/output_<file_index>.pkl), the file
\* index being the position of the file in file_list, from 0
ToPickle(t) ==
    /\ aux.tasks[t].pc = "to_pickle"
    /\ aux' = [aux EXCEPT !.outputs[t - 1] = [written |-> TRUE, rows |-> aux.tasks[t].batches],
                          !.tasks[t].pc = "done"]
    /\ UNCHANGED <<pc, rec, ev, study, trial, tune>>

\* Parallel returns once every task has ended
Collect ==
    /\ pc = "parallel"
    /\ \A t \in DOMAIN aux.tasks : aux.tasks[t].pc \in {"done", "FileExistsError"}
    /\ pc' = IF \E t \in DOMAIN aux.tasks : aux.tasks[t].pc = "FileExistsError"
             THEN "FileExistsError" ELSE "collected"
    /\ UNCHANGED <<rec, ev, study, trial, tune, aux>>

NextLoad ==
    \/ \E t \in DOMAIN aux.tasks : ProcessFile(t)
    \/ \E t \in DOMAIN aux.tasks : CheckSavePath(t)
    \/ \E t \in DOMAIN aux.tasks : MakeDirs(t)
    \/ \E t \in DOMAIN aux.tasks : MakeDirsRaises(t)
    \/ \E t \in DOMAIN aux.tasks : ToPickle(t)
    \/ Collect

SpecLoad == InitLoad /\ [][NextLoad]_vars

\* C24: under every interleaving no worker fails, an output file is written
\* only by the task of its own file, and when all workers have ended every
\* file has its output_<file_index>.pkl holding exactly its filtered rows.
C24_WorkersIndependent ==
    /\ \A t \in DOMAIN aux.tasks : aux.tasks[t].pc # "FileExistsError"
    /\ \A t \in DOMAIN aux.tasks :
           aux.outputs[t - 1].written => aux.tasks[t].pc = "done"
    /\ pc # "parallel" =>
           \A t \in DOMAIN aux.tasks :
               aux.outputs[t - 1] =
                   [written |-> TRUE, rows |-> Batches(aux.file_list[t], aux.remainder)]

(***************************************************************************)
(* aggregators/generate_sequence_order.py: sequence_order_from_date on     *)
(* lists of pairwise distinct dates, every list of at most MaxDates dates  *)
(* of DateValues.  Line 24 (the argsort of the dates) and line 25 (the     *)
(* argsort of the reversed order) are one action each.  Python indices     *)
(* count from 0, positions of a TLA+ sequence from 1.                      *)
(***************************************************************************)
\* np.argsort(a) of pairwise distinct integers: its k-th entry (k from 1) is
\* the index, from 0, of the k-th smallest element
Argsort(a) ==
    [k \in 1..Len(a) |->
        (CHOOSE i \in 1..Len(a) :
             Cardinality({j \in 1..Len(a) : a[j] < a[i]}) = k - 1) - 1]

sequence_order_from_date(date_list) == Argsort(Reversed(Argsort(date_list)))

MaxDates == 3

DateValues == {20191231, 20200101, 20200102, 20210101, 20211231}

Distinct(s) == \A i, j \in DOMAIN s : i # j => s[i] # s[j]

InitDate ==
    /\ \E date_list \in {<<>>} \cup SeqsUpTo(DateValues, MaxDates) :
           /\ Distinct(date_list)
           /\ aux = [date_list |-> date_list, sorted_order |-> None, positions |-> None]
    /\ pc = "sort"
    /\ rec = None
    /\ ev = None
    /\ study = None
    /\ trial = None
    /\ tune = None

\* line 24
SortedOrderStep ==
    /\ pc = "sort"
    /\ aux' = [aux EXCEPT !.sorted_order = Argsort(aux.date_list)]
    /\ pc' = "positions"
    /\ UNCHANGED <<rec, ev, study, trial, tune>>

\* line 25
PositionsStep ==
    /\ pc = "positions"
    /\ aux' = [aux EXCEPT !.positions = Argsort(Reversed(aux.sorted_order))]
    /\ pc' = "returned"
    /\ UNCHANGED <<rec, ev, study, trial, tune>>

NextDate ==
    \/ SortedOrderStep
    \/ PositionsStep

SpecDate == InitDate /\ [][NextDate]_vars

\* C25: for pairwise distinct dates the result is a permutation of 0..n-1
\* whose entry for a date is the number of later dates in the list (0 for
\* the latest, n-1 for the earliest); [20200101, 20210101, 20200102] gives
\* [2, 0, 1].
C25_DescendingRank ==
    pc = "returned" =>
        /\ aux.positions = sequence_order_from_date(aux.date_list)
        /\ Len(aux.positions) = Len(aux.date_list)
        /\ Range(aux.positions) = 0..(Len(aux.date_list) - 1)
        /\ \A i \in DOMAIN aux.date_list :
               aux.positions[i] =
                   Cardinality({j \in DOMAIN aux.date_list :
                                   aux.date_list[j] > aux.date_list[i]})
        /\ aux.date_list = <<20200101, 20210101, 20200102>> =>
               aux.positions = <<2, 0, 1>>

\* the list of the docstring has been ordered
C25_Witness ==
    /\ pc = "returned"
    /\ aux.date_list = <<20200101, 20210101, 20200102>>
    /\ aux.sorted_order = <<0, 2, 1>>
    /\ aux.positions = <<2, 0, 1>>

====
